---- MODULE Spec2Model ----
(***************************************************************************)
(* A model of the sharded, replicated key-value store of src/server.py     *)
(* (KVServer) and src/client.py (Clerk).                                   *)
(*                                                                         *)
(* Strings are sequences of character codes (keys) or of tokens (values).  *)
(* Every `with self.mu:` block of the source is one atomic action; the     *)
(* code between two lock blocks is a separate action, so every             *)
(* interleaving of handler threads at lock granularity is explored.        *)
(***************************************************************************)
EXTENDS Integers, Sequences, FiniteSets, TLC

\* ------------------------------------------------------------------ bounds
\* Calls started over the whole run: Clerk calls (get, put, append) and Get
\* requests delivered to a server by a caller other than a Clerk.
MaxCalls == 2
\* Passes of Clerk._call's while loop before the 2.0 s deadline is certain
\* to have passed (each failed pass sleeps 0.05 s).
MaxPasses == 2
\* Attempts of KVServer._forward's while loop before its deadline is certain
\* to have passed.
MaxFwdTries == 2
\* Calls, over the whole run, that the transport fails with a timeout while
\* the callee is still running (or has not started yet).
MaxDrops == 1
\* Server counts for which the routing functions are compared (1 .. MaxN)
MaxN == 4
\* Handler threads in the lock-level view of the servers
MaxLockHandlers == 2

\* ----------------------------------------------------- static configuration
\* cfg.nservers and cfg.nreplicas
NServers == 3
NReplicas == 2

Servers == 0 .. (NServers - 1)
\* Clerk.id values (nrand()), taken distinct
Clients == {1, 2}
\* Threads calling into the Clerks: two share Clerk 1, one uses Clerk 2.
\* Thread 2 is the one that calls Clerk 1 while thread 1 is inside a call.
Threads == {1, 2, 3}
ClerkOf(t) == IF t = 3 THEN 2 ELSE 1

\* Keys "1", "2" and superscript two as sequences of character codes
Keys == {<<49>>, <<50>>, <<178>>}

\* The empty string, and Python's None (never a string)
EmptyStr == << >>
NoneVal == <<-1>>

\* The text a put/append call carries: one token unique to (client, seq)
Tok(c, n) == 10 * c + n
TextOf(c, n) == <<Tok(c, n)>>

\* ------------------------------------------------------------ pure functions
\* The result of a call that raises ValueError (never a key id: those are
\* >= 0)
ValueErr == -1

\* Python's limit on the number of digits int() converts (3.11)
MaxStrDigits == 4300

\* The code points of the digits zero of the decimal scripts of Unicode
\* (general category Nd): each is followed by the digits one to nine.
DecimalZeros ==
    {
     48, 1632, 1776, 1984, 2406, 2534, 2662, 2790, 2918, 3046, 3174, 3302,
     3430, 3558, 3664, 3792, 3872, 4160, 4240, 6112, 6160, 6470, 6608,
     6784, 6800, 6992, 7088, 7232, 7248, 42528, 43216, 43264, 43472, 43504,
     43600, 44016, 65296, 66720, 68912, 69734, 69872, 69942, 70096, 70384,
     70736, 70864, 71248, 71360, 71472, 71904, 72016, 72784, 73040, 73120,
     92768, 92864, 93008, 120782, 120792, 120802, 120812, 120822, 123200,
     123632, 125264, 130032
    }

\* The ranges of the code points that are digits without being decimal
\* (superscripts, subscripts, circled and dotted digits, ...)
OtherDigitRanges ==
    {
     <<178, 179>>, <<185, 185>>, <<4969, 4977>>, <<6618, 6618>>,
     <<8304, 8304>>, <<8308, 8313>>, <<8320, 8329>>, <<9312, 9320>>,
     <<9332, 9340>>, <<9352, 9360>>, <<9450, 9450>>, <<9461, 9469>>,
     <<9471, 9471>>, <<10102, 10110>>, <<10112, 10120>>, <<10122, 10130>>,
     <<68160, 68163>>, <<69216, 69224>>, <<69714, 69722>>,
     <<127232, 127242>>
    }

\* str.isdecimal() of one character: what int() accepts as a digit
IsDecimalCode(x) == \E z \in DecimalZeros : x >= z /\ x <= z + 9

\* The value of a decimal character
DigitValue(x) == x - (CHOOSE z \in DecimalZeros : x >= z /\ x <= z + 9)

\* str.isdigit() of one character
IsDigitCode(x) ==
    \/ IsDecimalCode(x)
    \/ \E r \in OtherDigitRanges : x >= r[1] /\ x <= r[2]

\* str.isdigit(): non-empty and every character a digit
IsDigitStr(key) == Len(key) > 0 /\ \A i \in 1 .. Len(key) : IsDigitCode(key[i])

\* The base-10 value of a sequence of decimal characters
RECURSIVE DecimalValue(_)
DecimalValue(key) ==
    IF Len(key) = 0 THEN 0
    ELSE 10 * DecimalValue(SubSeq(key, 1, Len(key) - 1)) + DigitValue(key[Len(key)])

\* int(key) for a key without sign, blank or underscore: ValueError for the
\* empty string, for a character that is not decimal and for more than
\* MaxStrDigits digits
IntOf(key) ==
    IF \/ Len(key) = 0
       \/ Len(key) > MaxStrDigits
       \/ \E i \in 1 .. Len(key) : ~IsDecimalCode(key[i])
    THEN ValueErr
    ELSE DecimalValue(key)

RECURSIVE SumOrd(_)
SumOrd(key) == IF Len(key) = 0 THEN 0 ELSE key[1] + SumOrd(Tail(key))

\* _key_id(key)
KeyId(key) == IF IsDigitStr(key) THEN IntOf(key) ELSE SumOrd(key)

\* _key_id(key) raises ValueError
KeyIdRaises(key) == KeyId(key) = ValueErr

\* KVServer._primary_key / the Clerk's shard, with cfg.nservers = N
PrimaryKeyIn(N, key) == IF KeyIdRaises(key) THEN ValueErr ELSE KeyId(key) % N

\* KVServer._responsible with cfg.nservers = N and cfg.nreplicas = R
\* (FALSE also when it raises ValueError)
ResponsibleIn(N, R, s, key) ==
    ~KeyIdRaises(key) /\ ((s - PrimaryKeyIn(N, key)) % N) < R

\* The server _replicate addresses in iteration k (1 <= k < R)
ReplicaAtIn(N, key, k) == (PrimaryKeyIn(N, key) + k) % N

\* Mutant of ClerkReplicaIn: the offset is not reduced modulo the replica
\* count
ClerkReplicaInNoWrap(N, R, shard, offset, attempt) ==
    (shard + (offset + attempt)) % N

\* The server Clerk._call addresses in iteration `attempt` of a pass
ClerkReplicaIn(N, R, shard, offset, attempt) ==
    (shard + ((offset + attempt) % R)) % N

\* KVServer._primary_key / the Clerk's shard
PrimaryKey(key) == PrimaryKeyIn(NServers, key)

\* KVServer._primary
IsPrimary(s, key) == ~KeyIdRaises(key) /\ s = PrimaryKey(key)

\* KVServer._responsible
Responsible(s, key) == ResponsibleIn(NServers, NReplicas, s, key)

\* The server _replicate addresses in iteration k (1 <= k < R)
ReplicaAt(key, k) == ReplicaAtIn(NServers, key, k)

Backups(key) ==
    IF KeyIdRaises(key) THEN {}
    ELSE {ReplicaAt(key, k) : k \in 1 .. (NReplicas - 1)} \ {PrimaryKey(key)}

\* The first R servers of key's replica set
ReplicaSet(key) ==
    IF KeyIdRaises(key) THEN {}
    ELSE {(PrimaryKey(key) + i) % NServers : i \in 0 .. (NReplicas - 1)}

\* cfg.running_servers during the run: every server, every server but one,
\* or every server but the replica set of one key
StartRunning ==
    {Servers} \cup {Servers \ {s} : s \in Servers}
              \cup {Servers \ ReplicaSet(key) : key \in Keys}

\* Clerk.last_replica when the run starts: empty (offset 0 everywhere), or
\* what earlier calls that succeeded at offset o have left
StartOffsets ==
    {[c \in Clients |-> [sh \in Servers |-> o]] : o \in 0 .. (NReplicas - 1)}

\* The server Clerk._call addresses in iteration `attempt` of a pass
ClerkReplica(shard, offset, attempt) ==
    ClerkReplicaIn(NServers, NReplicas, shard, offset, attempt)

\* --------------------------------------------------------------------- state
VARIABLES
    kv,          \* kv[s][key]: KVServer.kv of server s ("" when absent)
    last,        \* last[s][c]: KVServer.last of server s
    opCount,     \* number of cfg.op() invocations
    clerkSeq,    \* clerkSeq[c]: Clerk.seq
    lastReplica, \* lastReplica[c][shard]: Clerk.last_replica
    th,          \* th[t]: the Clerk call thread t is in
    calls,       \* number of calls started so far
    handlers,    \* the RPC handler invocations in progress
    running,     \* cfg.running_servers
    drops,       \* transport timeouts taken with the callee still running
    log,         \* history: log[key], the (client, seq) applied at the primary, in lock order
    acked,       \* history: put/append calls that returned to the Clerk's caller
    replies,     \* history: the replies computed by Put/Append on a primary
    bapplied,    \* history: bapplied[s], the (client, seq) server s wrote in _app_rep
    px,          \* routing view: one pass of Clerk._call and one _replicate loop
    lcfg,        \* lock view: cfg.nservers and cfg.nreplicas
    mu,          \* lock view: mu[s], the handler thread holding KVServer.mu of s (0: free)
    lh           \* lock view: lh[i], where handler thread i is

\* The state of the servers, the Clerks and the transport
base == <<kv, last, opCount, clerkSeq, lastReplica, th, calls, handlers, running,
          drops, log, acked, replies, bapplied>>

\* The routing view and the lock view
aux == <<px, lcfg, mu, lh>>

vars == <<base, aux>>

NoEntry == [has |-> FALSE, seq |-> 0, val |-> NoneVal]

\* A thread that is in no Clerk call. The fields from `out` on are history:
\* the outcome of the thread's last call and what the call saw.
IdleThread ==
    [pc |-> "idle", op |-> "none", key |-> EmptyStr, val |-> EmptyStr, seq |-> 0,
     offset |-> 0, attempt |-> 0, pass |-> 0, n |-> 0,
     out |-> "none", reply |-> NoneVal, from |-> 0,
     firstDown |-> FALSE, allDown |-> FALSE, dropped |-> FALSE, pre |-> {}, got |-> 0]

BaseInit ==
    /\ kv = [s \in Servers |-> [k \in Keys |-> EmptyStr]]
    /\ last = [s \in Servers |-> [c \in Clients |-> NoEntry]]
    /\ opCount = 0
    /\ clerkSeq = [c \in Clients |-> 0]
    /\ lastReplica \in StartOffsets
    /\ th = [t \in Threads |-> IdleThread]
    /\ calls = 0
    /\ handlers = {}
    /\ running \in StartRunning
    /\ drops = 0
    /\ log = [k \in Keys |-> << >>]
    /\ acked = {}
    /\ replies = {}
    /\ bapplied = [s \in Servers |-> {}]

\* The routing view at rest
PxIdle ==
    [n |-> NServers, r |-> NReplicas, key |-> EmptyStr, offset |-> 0,
     attempt |-> 0, contacted |-> << >>, k |-> 1, sent |-> {}, raised |-> FALSE]

\* A handler thread of the lock view that has not arrived yet
LockIdle == [pc |-> "none", op |-> "none", key |-> EmptyStr, srv |-> 0, k |-> 0,
             fwd |-> FALSE]

LockThreads == 1 .. MaxLockHandlers

\* Between two steps of the servers every KVServer.mu is free: each lock
\* block is one step
AuxIdle ==
    /\ px = PxIdle
    /\ lcfg = [n |-> NServers, r |-> NReplicas]
    /\ mu = [s \in Servers |-> 0]
    /\ lh = [i \in LockThreads |-> LockIdle]

Init == BaseInit /\ AuxIdle

\* Mutant of NextSeq: the counter is read without being incremented
NextSeqStale(c) == clerkSeq[c]

\* Clerk.put_append under Clerk.lock: self.seq += 1, then self.seq is captured
NextSeq(c) == clerkSeq[c] + 1

\* ------------------------------------------------------------ history helpers
\* Position of (c, n) in the primary's apply order of key (0: never applied)
Pos(key, c, n) ==
    IF \E i \in 1 .. Len(log[key]) : log[key][i] = <<c, n>>
    THEN CHOOSE i \in 1 .. Len(log[key]) : log[key][i] = <<c, n>>
    ELSE 0

\* How often the primary applied (c, n) to key
TimesApplied(key, c, n) == Cardinality({i \in 1 .. Len(log[key]) : log[key][i] = <<c, n>>})

\* Every stored value ends with the token of the write that produced it:
\* the version of a value is that write's position in the apply order.
VersionOf(key, v) ==
    IF Len(v) = 0 THEN 0
    ELSE IF \E i \in 1 .. Len(log[key]) : Tok(log[key][i][1], log[key][i][2]) = v[Len(v)]
         THEN CHOOSE i \in 1 .. Len(log[key]) :
                  Tok(log[key][i][1], log[key][i][2]) = v[Len(v)]
         ELSE 0

\* ------------------------------------------------------------------- Clerk
\* Clerk.get / Clerk.put_append up to the entry of _call: the shard is
\* computed first, and the call ends there when _key_id raises ValueError;
\* then the sequence number is incremented and captured under Clerk.lock.
StartOp(t, op, key) ==
    /\ th[t].pc = "idle"
    /\ calls < MaxCalls
    /\ t = 2 => th[1].pc # "idle"
    /\ LET c == ClerkOf(t)
           n == NextSeq(c)
       IN IF KeyIdRaises(key)
          THEN /\ clerkSeq' = clerkSeq
               /\ th' = [th EXCEPT ![t] =
                      [IdleThread EXCEPT !.op = op, !.key = key, !.n = th[t].n + 1,
                                         !.out = "valueerror"]]
          ELSE /\ clerkSeq' = IF op = "Get" THEN clerkSeq ELSE [clerkSeq EXCEPT ![c] = n]
               /\ th' = [th EXCEPT ![t] =
                      [IdleThread EXCEPT
                         !.pc = "send", !.op = op, !.key = key,
                         !.val = IF op = "Get" THEN EmptyStr ELSE TextOf(c, n),
                         !.seq = IF op = "Get" THEN 0 ELSE n,
                         !.n = th[t].n + 1,
                         !.pre = {w \in acked : w.key = key}]]
    /\ calls' = calls + 1
    /\ UNCHANGED <<kv, last, opCount, lastReplica, handlers, running, drops, log,
                   acked, replies, bapplied>>
    /\ UNCHANGED aux

\* Mutant of ClerkAdvance: a failed call ends the pass, no other replica of
\* the set is tried
ClerkAdvanceNoFallback(r) == [r EXCEPT !.attempt = 0, !.pass = @ + 1, !.pc = "loop"]

\* Clerk._call after a call raised TimeoutError: `continue`, and at the end of
\* the for loop the sleep and the next test of the while condition.
ClerkAdvance(r) ==
    IF r.attempt + 1 < NReplicas
    THEN [r EXCEPT !.attempt = @ + 1, !.pc = "send"]
    ELSE [r EXCEPT !.attempt = 0, !.pass = @ + 1, !.pc = "loop"]

\* A new handler invocation: thread t's call number n, Clerk attempt a,
\* forward attempt f (0 when the Clerk itself called the server). `ends` is
\* the set of transport endpoints the invocation has made and not deleted.
NewHandler(t, n, a, f, srv, op, key, val, cid, seq) ==
    [t |-> t, n |-> n, a |-> a, f |-> f, srv |-> srv, op |-> op, key |-> key,
     val |-> val, cid |-> cid, seq |-> seq, pc |-> "start", k |-> 0,
     out |-> "none", reply |-> NoneVal, newv |-> EmptyStr, ends |-> {}]

AttemptNo(r) == r.pass * NReplicas + r.attempt

\* Clerk._call: self.servers[replica_id].call(rpc, args). The offset is read
\* from last_replica when _call is entered, just before the first call.
ClerkSend(t) ==
    /\ th[t].pc = "send"
    /\ LET r == th[t]
           c == ClerkOf(t)
           shard == PrimaryKey(r.key)
           first == r.pass = 0 /\ r.attempt = 0
           off == IF first THEN lastReplica[c][shard] ELSE r.offset
           srv == ClerkReplica(shard, off, r.attempt)
           r1 == [r EXCEPT !.offset = off,
                           !.firstDown = IF first THEN srv \notin running ELSE @,
                           !.allDown = IF first
                                       THEN \A a \in 0 .. (NReplicas - 1) :
                                                ClerkReplica(shard, off, a) \notin running
                                       ELSE @]
       IN IF srv \in running
          THEN /\ handlers' = handlers \cup
                     {NewHandler(t, r.n, AttemptNo(r), 0, srv, r.op, r.key, r.val,
                                 IF r.op = "Get" THEN 0 ELSE c, r.seq)}
               /\ th' = [th EXCEPT ![t] = [r1 EXCEPT !.pc = "wait"]]
          ELSE /\ handlers' = handlers
               /\ th' = [th EXCEPT ![t] = ClerkAdvance(r1)]
    /\ UNCHANGED <<kv, last, opCount, clerkSeq, lastReplica, calls, running, drops,
                   log, acked, replies, bapplied>>
    /\ UNCHANGED aux

\* The transport fails the Clerk's call with a timeout although the server
\* was reached: the handler keeps running and its reply is lost.
ClerkTimeout(t) ==
    /\ th[t].pc = "wait"
    /\ drops < MaxDrops
    /\ drops' = drops + 1
    /\ th' = [th EXCEPT ![t] = ClerkAdvance([th[t] EXCEPT !.dropped = TRUE])]
    /\ UNCHANGED <<kv, last, opCount, clerkSeq, lastReplica, calls, handlers, running,
                   log, acked, replies, bapplied>>
    /\ UNCHANGED aux

\* Clerk._call: the while condition holds again after a failed pass.
ClerkRetry(t) ==
    /\ th[t].pc = "loop"
    /\ th[t].pass < MaxPasses
    /\ th' = [th EXCEPT ![t].pc = "send"]
    /\ UNCHANGED <<kv, last, opCount, clerkSeq, lastReplica, calls, handlers, running,
                   drops, log, acked, replies, bapplied>>
    /\ UNCHANGED aux

\* time.time() < timeout may be false once a pass has failed and slept
DeadlinePassed(r) == r.pass >= 1

\* Clerk._call: the deadline has passed, raise TimeoutError to the caller.
ClerkGiveUp(t) ==
    /\ th[t].pc = "loop"
    /\ DeadlinePassed(th[t])
    /\ th' = [th EXCEPT ![t].pc = "idle", ![t].out = "timeout"]
    /\ UNCHANGED <<kv, last, opCount, clerkSeq, lastReplica, calls, handlers, running,
                   drops, log, acked, replies, bapplied>>
    /\ UNCHANGED aux

\* ---------------------------------------------------------------- KVServer
Replace(h, h2) == (handlers \ {h}) \cup {h2}

\* Mutant of OpHook: the hook is not invoked
OpHookSkipped(n) == n

\* self.cfg.op(): one more invocation of the counting hook
OpHook(n) == n + 1

\* _forward: cfg.net.make_end(endpoint_name) in attempt number a; the names
\* (32 random bits each) are taken distinct
MakeEnd(ends, a) == ends \cup {a}

\* Mutant of DeleteEnd: the endpoint is left behind
DeleteEndSkipped(ends, a) == ends

\* _forward: cfg.net.delete_end(endpoint_name) in the finally clause
DeleteEnd(ends, a) == ends \ {a}

\* Mutant of FwdTarget: the request is sent to the server after the primary
FwdTargetNext(key) == (PrimaryKey(key) + 1) % NServers

\* _forward: the server the endpoint is connected to
FwdTarget(key) == PrimaryKey(key)

\* Mutant of FwdReply: the primary's reply value is dropped
FwdReplyNone(p, h) == [p EXCEPT !.pc = "ret", !.out = "ok", !.reply = NoneVal,
                                !.ends = DeleteEnd(@, p.k + 1)]

\* _forward: `return connection.call(...)`, forwarder p hands on the reply of
\* the primary's handler h (the finally clause deletes the endpoint)
FwdReply(p, h) == [p EXCEPT !.pc = "ret", !.out = "ok", !.reply = h.reply,
                            !.ends = DeleteEnd(@, p.k + 1)]

\* _forward: connection.call raised TimeoutError in attempt p.k + 1: the
\* except clause sleeps 0.05 s, the endpoint is still there
FwdRaised(p) == [p EXCEPT !.pc = "fwdsleep"]

\* _forward: after the sleep the finally clause deletes the endpoint of
\* attempt p.k + 1, then the deadline is tested again
FwdFailed(p) == [p EXCEPT !.pc = "fwd", !.k = @ + 1, !.ends = DeleteEnd(@, p.k + 1)]

\* Mutant of AppRepKv: the backup concatenates onto its own current value
AppRepKvConcat(s, key, newv, c, n) ==
    IF last[s][c].has /\ n <= last[s][c].seq THEN kv[s]
    ELSE [kv[s] EXCEPT ![key] = @ \o newv]

\* Mutant of AppRepLast: the backup records the entry without the
\* duplicate check
AppRepLastUnchecked(s, c, n, replyv) ==
    [last[s] EXCEPT ![c] = [has |-> TRUE, seq |-> n, val |-> replyv]]

\* Mutant of IsDup: only strictly older sequence numbers are duplicates
IsDupOffByOne(e, seq) == e.has /\ seq < e.seq

\* The duplicate check of Put, Append and _app_rep:
\* `last_op and seq <= last_op[0]`
IsDup(e, seq) == e.has /\ seq <= e.seq

\* The value Append stores: current + args.value
Updated(current, value) == current \o value

\* KVServer._app_rep on server s, as the new (kv[s], last[s])
AppRepKv(s, key, newv, c, n) ==
    IF IsDup(last[s][c], n) THEN kv[s] ELSE [kv[s] EXCEPT ![key] = newv]

AppRepLast(s, c, n, replyv) ==
    IF IsDup(last[s][c], n) THEN last[s]
    ELSE [last[s] EXCEPT ![c] = [has |-> TRUE, seq |-> n, val |-> replyv]]

\* KVServer.Get (_responsible raises ValueError when _key_id does)
HGet(h) ==
    /\ h \in handlers /\ h.pc = "start" /\ h.op = "Get"
    /\ IF KeyIdRaises(h.key)
       THEN /\ handlers' = Replace(h, [h EXCEPT !.pc = "ret", !.out = "valueerror"])
            /\ opCount' = opCount
       ELSE IF ~Responsible(h.srv, h.key)
       THEN /\ handlers' = Replace(h, [h EXCEPT !.pc = "ret", !.out = "timeout"])
            /\ opCount' = opCount
       ELSE /\ handlers' = Replace(h, [h EXCEPT !.pc = "ret", !.out = "ok",
                                                !.reply = kv[h.srv][h.key]])
            /\ opCount' = OpHook(opCount)
    /\ UNCHANGED <<kv, last, clerkSeq, lastReplica, th, calls, running, drops, log,
                   acked, replies, bapplied>>
    /\ UNCHANGED aux

\* History: what the primary's handler h will reply
Reply(h, v) == [c |-> h.cid, n |-> h.seq, key |-> h.key, op |-> h.op, reply |-> v]

\* After the lock block of Put/Append: _replicate when there are backups
AfterApply == IF NReplicas > 1 THEN "rep" ELSE "ret"

\* KVServer.Put: self._primary(args.key) is evaluated first and the handler
\* ends with ValueError when _key_id raises it; on the primary, the block
\* under self.mu
HPut(h) ==
    /\ h \in handlers /\ h.pc = "start" /\ h.op = "Put"
    /\ KeyIdRaises(h.key) \/ IsPrimary(h.srv, h.key)
    /\ LET e == last[h.srv][h.cid] IN
       IF KeyIdRaises(h.key)
       THEN /\ handlers' = Replace(h, [h EXCEPT !.pc = "ret", !.out = "valueerror"])
            /\ UNCHANGED <<kv, last, opCount, log, replies>>
       ELSE IF IsDup(e, h.seq)
       THEN /\ handlers' = Replace(h, [h EXCEPT !.pc = "ret", !.out = "ok", !.reply = e.val])
            /\ replies' = replies \cup {Reply(h, e.val)}
            /\ UNCHANGED <<kv, last, opCount, log>>
       ELSE /\ kv' = [kv EXCEPT ![h.srv][h.key] = h.val]
            /\ last' = [last EXCEPT ![h.srv][h.cid] =
                            [has |-> TRUE, seq |-> h.seq, val |-> NoneVal]]
            /\ opCount' = OpHook(opCount)
            /\ log' = [log EXCEPT ![h.key] = Append(@, <<h.cid, h.seq>>)]
            /\ handlers' = Replace(h, [h EXCEPT !.pc = AfterApply, !.k = 1, !.out = "ok",
                                                !.reply = NoneVal, !.newv = h.val])
            /\ replies' = replies \cup {Reply(h, NoneVal)}
    /\ UNCHANGED <<clerkSeq, lastReplica, th, calls, running, drops, acked, bapplied>>
    /\ UNCHANGED aux

\* KVServer.Append: self._primary(args.key) is evaluated first and the
\* handler ends with ValueError when _key_id raises it; on the primary, the
\* block under self.mu
HAppend(h) ==
    /\ h \in handlers /\ h.pc = "start" /\ h.op = "Append"
    /\ KeyIdRaises(h.key) \/ IsPrimary(h.srv, h.key)
    /\ LET e == last[h.srv][h.cid]
           current == kv[h.srv][h.key]
           updated == Updated(current, h.val)
       IN
       IF KeyIdRaises(h.key)
       THEN /\ handlers' = Replace(h, [h EXCEPT !.pc = "ret", !.out = "valueerror"])
            /\ UNCHANGED <<kv, last, opCount, log, replies>>
       ELSE IF IsDup(e, h.seq)
       THEN /\ handlers' = Replace(h, [h EXCEPT !.pc = "ret", !.out = "ok", !.reply = e.val])
            /\ replies' = replies \cup {Reply(h, e.val)}
            /\ UNCHANGED <<kv, last, opCount, log>>
       ELSE /\ kv' = [kv EXCEPT ![h.srv][h.key] = updated]
            /\ last' = [last EXCEPT ![h.srv][h.cid] =
                            [has |-> TRUE, seq |-> h.seq, val |-> current]]
            /\ opCount' = OpHook(opCount)
            /\ log' = [log EXCEPT ![h.key] = Append(@, <<h.cid, h.seq>>)]
            /\ handlers' = Replace(h, [h EXCEPT !.pc = AfterApply, !.k = 1, !.out = "ok",
                                                !.reply = current, !.newv = updated])
            /\ replies' = replies \cup {Reply(h, current)}
    /\ UNCHANGED <<clerkSeq, lastReplica, th, calls, running, drops, acked, bapplied>>
    /\ UNCHANGED aux

\* KVServer._replicate: iteration h.k of the loop, that is one _app_rep call
\* on the follower (the block under the follower's self.mu)
HReplicate(h) ==
    /\ h \in handlers /\ h.pc = "rep"
    /\ LET f == ReplicaAt(h.key, h.k)
           h2 == [h EXCEPT !.k = @ + 1,
                           !.pc = IF h.k + 1 < NReplicas THEN "rep" ELSE "ret"]
       IN /\ handlers' = Replace(h, h2)
          /\ IF f = h.srv
             THEN UNCHANGED <<kv, last, bapplied>>
             ELSE /\ kv' = [kv EXCEPT ![f] = AppRepKv(f, h.key, h.newv, h.cid, h.seq)]
                  /\ last' = [last EXCEPT ![f] = AppRepLast(f, h.cid, h.seq, h.reply)]
                  /\ bapplied' = IF IsDup(last[f][h.cid], h.seq) THEN bapplied
                                 ELSE [bapplied EXCEPT ![f] = @ \cup {<<h.cid, h.seq>>}]
    /\ UNCHANGED <<opCount, clerkSeq, lastReplica, th, calls, running, drops, log,
                   acked, replies>>
    /\ UNCHANGED aux

\* KVServer._forward: one pass of the while loop up to connection.call. With
\* the primary out of cfg.running_servers the endpoint is disabled and the
\* call raises TimeoutError: the handler is in the sleep of the except clause.
\* Put and Append enter _forward only when self._primary(args.key) returned
\* False, so not for a key on which _key_id raises.
HForwardSend(h) ==
    /\ h \in handlers /\ h.pc \in {"start", "fwd"}
    /\ h.op \in {"Put", "Append"}
    /\ ~KeyIdRaises(h.key)
    /\ ~IsPrimary(h.srv, h.key)
    /\ h.k < MaxFwdTries
    /\ LET p == FwdTarget(h.key)
           h1 == [h EXCEPT !.ends = MakeEnd(@, h.k + 1)]
       IN
       IF p \in running
       THEN handlers' = Replace(h, [h1 EXCEPT !.pc = "fwdwait"]) \cup
                {NewHandler(h.t, h.n, h.a, h.k + 1, p, h.op, h.key, h.val, h.cid, h.seq)}
       ELSE handlers' = Replace(h, FwdRaised(h1))
    /\ UNCHANGED <<kv, last, opCount, clerkSeq, lastReplica, th, calls, running, drops,
                   log, acked, replies, bapplied>>
    /\ UNCHANGED aux

\* KVServer._forward: the transport fails connection.call with a timeout while
\* the primary's handler is still running.
HForwardTimeout(h) ==
    /\ h \in handlers /\ h.pc = "fwdwait"
    /\ drops < MaxDrops
    /\ drops' = drops + 1
    /\ handlers' = Replace(h, FwdRaised(h))
    /\ th' = IF th[h.t].n = h.n /\ th[h.t].pc # "idle"
             THEN [th EXCEPT ![h.t].dropped = TRUE] ELSE th
    /\ UNCHANGED <<kv, last, opCount, clerkSeq, lastReplica, calls, running, log,
                   acked, replies, bapplied>>
    /\ UNCHANGED aux

\* KVServer._forward: time.sleep(0.05) returns, the finally clause runs and
\* the while condition is tested next
HForwardWake(h) ==
    /\ h \in handlers /\ h.pc = "fwdsleep"
    /\ handlers' = Replace(h, FwdFailed(h))
    /\ UNCHANGED <<kv, last, opCount, clerkSeq, lastReplica, th, calls, running, drops,
                   log, acked, replies, bapplied>>
    /\ UNCHANGED aux

\* KVServer._forward: the deadline has passed, raise TimeoutError
HForwardGiveUp(h) ==
    /\ h \in handlers /\ h.pc = "fwd"
    /\ handlers' = Replace(h, [h EXCEPT !.pc = "ret", !.out = "timeout"])
    /\ UNCHANGED <<kv, last, opCount, clerkSeq, lastReplica, th, calls, running, drops,
                   log, acked, replies, bapplied>>
    /\ UNCHANGED aux

\* The forwarding handler that is waiting for h's reply, if any
Forwarders(h) ==
    {p \in handlers : p.t = h.t /\ p.n = h.n /\ p.a = h.a /\ p.f = 0
                      /\ p.pc = "fwdwait" /\ p.k + 1 = h.f}

\* Whether thread h.t is still waiting for h's reply
ClerkWaits(h) ==
    /\ h.f = 0
    /\ th[h.t].pc = "wait" /\ th[h.t].n = h.n /\ AttemptNo(th[h.t]) = h.a

\* A handler returns (or raises TimeoutError) and its caller, if it still
\* waits, continues: Clerk._call after self.servers[..].call, or
\* KVServer._forward after connection.call.
Return(h) ==
    /\ h \in handlers /\ h.pc = "ret"
    /\ IF h.f > 0
       THEN /\ handlers' =
                  IF Forwarders(h) = {} THEN handlers \ {h}
                  ELSE LET p == CHOOSE q \in Forwarders(h) : TRUE IN
                       (handlers \ {h, p}) \cup
                       {IF h.out = "ok" THEN FwdReply(p, h) ELSE FwdRaised(p)}
            /\ UNCHANGED <<th, lastReplica, acked>>
       ELSE /\ handlers' = handlers \ {h}
            /\ IF ~(h.t \in Threads /\ ClerkWaits(h))
               THEN UNCHANGED <<th, lastReplica, acked>>
               ELSE LET r == th[h.t]
                        c == ClerkOf(h.t)
                    IN IF h.out = "ok"
                       THEN /\ lastReplica' = [lastReplica EXCEPT ![c][PrimaryKey(r.key)] =
                                                    (r.offset + r.attempt) % NReplicas]
                            /\ th' = [th EXCEPT ![h.t] =
                                         [r EXCEPT !.pc = "idle", !.out = "ok",
                                                   !.reply = h.reply, !.from = h.srv,
                                                   !.got = VersionOf(r.key, h.reply)]]
                            /\ acked' = IF r.op = "Get" THEN acked
                                        ELSE acked \cup {[c |-> c, n |-> r.seq, key |-> r.key]}
                       ELSE /\ th' = [th EXCEPT ![h.t] = ClerkAdvance(r)]
                            /\ UNCHANGED <<lastReplica, acked>>
    /\ UNCHANGED <<kv, last, opCount, clerkSeq, calls, running, drops, log, replies,
                   bapplied>>
    /\ UNCHANGED aux

\* A Get RPC that reaches server s from a caller other than a Clerk (a test
\* or a tool holding a ClientEnd of s): any server may be addressed.
RawGet(s, key) ==
    /\ calls < MaxCalls
    /\ s \in running
    /\ calls' = calls + 1
    /\ handlers' = handlers \cup
          {NewHandler(0, calls, 0, 0, s, "Get", key, EmptyStr, 0, 0)}
    /\ UNCHANGED <<kv, last, opCount, clerkSeq, lastReplica, th, running, drops,
                   log, acked, replies, bapplied>>
    /\ UNCHANGED aux

Ops == {"Get", "Put", "Append"}

Next ==
    \/ \E t \in Threads, op \in Ops, key \in Keys : StartOp(t, op, key)
    \/ \E t \in Threads : ClerkSend(t)
    \/ \E t \in Threads : ClerkTimeout(t)
    \/ \E t \in Threads : ClerkRetry(t)
    \/ \E t \in Threads : ClerkGiveUp(t)
    \/ \E h \in handlers : HGet(h)
    \/ \E h \in handlers : HPut(h)
    \/ \E h \in handlers : HAppend(h)
    \/ \E h \in handlers : HReplicate(h)
    \/ \E h \in handlers : HForwardSend(h)
    \/ \E h \in handlers : HForwardTimeout(h)
    \/ \E h \in handlers : HForwardWake(h)
    \/ \E h \in handlers : HForwardGiveUp(h)
    \/ \E h \in handlers : Return(h)
    \/ \E s \in Servers, key \in Keys : RawGet(s, key)

Spec == Init /\ [][Next]_vars

\* The steps a thread inside Clerk._call takes on its own
ClerkStep(t) == ClerkSend(t) \/ ClerkRetry(t) \/ ClerkGiveUp(t)

\* The steps of the handler threads, the return to the caller included
HandlerStep ==
    \E h \in handlers :
        \/ HGet(h) \/ HPut(h) \/ HAppend(h) \/ HReplicate(h)
        \/ HForwardSend(h) \/ HForwardWake(h) \/ HForwardGiveUp(h) \/ Return(h)

\* Every thread that can run is scheduled eventually. Nothing forces a new
\* call or a transport failure.
FairSpec ==
    /\ Init /\ [][Next]_vars
    /\ \A t \in Threads : WF_vars(ClerkStep(t))
    /\ WF_vars(HandlerStep)

\* ------------------------------------------------------------ routing view
\* One pass of the for loop of Clerk._call and one run of the loop of
\* KVServer._replicate, for a configuration (N, R), a key and a remembered
\* offset, with nothing else going on.

\* Keys "", "7", "12", "07", "a" and "ab"; Arabic-Indic three, and "1"
\* followed by it; superscript two and circled one
PureKeys ==
    {<< >>, <<55>>, <<49, 50>>, <<48, 55>>, <<97>>, <<97, 98>>,
     <<1635>>, <<49, 1635>>, <<178>>, <<9312>>}

\* No call started, every server running, no offset remembered
BaseAtRest ==
    /\ BaseInit
    /\ running = Servers
    /\ lastReplica = [c \in Clients |-> [sh \in Servers |-> 0]]

PureInit ==
    /\ BaseAtRest
    /\ \E n \in 1 .. MaxN :
         \E r \in 1 .. n :
           \E key \in PureKeys, off \in 0 .. (r - 1) :
               px = [PxIdle EXCEPT !.n = n, !.r = r, !.key = key, !.offset = off]
    /\ lcfg = [n |-> NServers, r |-> NReplicas]
    /\ mu = [s \in Servers |-> 0]
    /\ lh = [i \in LockThreads |-> LockIdle]

\* Clerk.get / put_append and KVServer._primary_key: _key_id raises
\* ValueError, the Clerk never enters _call and the server never gets to
\* _replicate
PassRaises ==
    /\ KeyIdRaises(px.key) /\ ~px.raised
    /\ px' = [px EXCEPT !.raised = TRUE]
    /\ UNCHANGED <<base, lcfg, mu, lh>>

\* Clerk._call: iteration px.attempt of `for attempt in range(num_replicas)`
PassAttempt ==
    /\ ~KeyIdRaises(px.key)
    /\ px.attempt < px.r
    /\ px' = [px EXCEPT
                !.contacted = Append(@, ClerkReplicaIn(px.n, px.r,
                                         PrimaryKeyIn(px.n, px.key),
                                         px.offset, px.attempt)),
                !.attempt = @ + 1]
    /\ UNCHANGED <<base, lcfg, mu, lh>>

\* KVServer._replicate on the primary: iteration px.k of
\* `for k in range(1, R)`
ReplicateTo ==
    /\ ~KeyIdRaises(px.key)
    /\ px.k < px.r
    /\ LET sid == ReplicaAtIn(px.n, px.key, px.k) IN
       px' = [px EXCEPT
                !.sent = IF sid = PrimaryKeyIn(px.n, px.key) THEN @ ELSE @ \cup {sid},
                !.k = @ + 1]
    /\ UNCHANGED <<base, lcfg, mu, lh>>

PureNext == PassRaises \/ PassAttempt \/ ReplicateTo

PureSpec == PureInit /\ [][PureNext]_vars

\* --------------------------------------------------------------- lock view
\* The handler threads of the servers at the granularity of KVServer.mu:
\* taking and releasing the lock are separate steps. A thread is a call
\* chain: a forwarded request runs at the primary on behalf of the forwarding
\* handler, and _app_rep runs on the follower in the primary's thread.

\* (cfg.nservers, cfg.nreplicas): two servers that are each other's backup,
\* and the configuration of the main view
LockConfigs == {[n |-> 2, r |-> 2], [n |-> NServers, r |-> NReplicas]}

LockInit ==
    /\ BaseAtRest
    /\ px = PxIdle
    /\ lcfg \in LockConfigs
    /\ mu = [s \in Servers |-> 0]
    /\ lh = [i \in LockThreads |-> LockIdle]

\* Entering `with self.mu:` on server s
Locked(m, s, i) == [m EXCEPT ![s] = i]

\* Mutant of Unlocked: the lock is not released when the block is left
UnlockedNever(m, s) == m

\* Leaving `with self.mu:` on server s
Unlocked(m, s) == [m EXCEPT ![s] = 0]

\* The locks thread i holds
Holds(i) == {s \in Servers : mu[s] = i}

\* A Get, Put or Append request reaches server s
LArrive(i, op, key, s) ==
    /\ lh[i].pc = "none"
    /\ i > 1 => lh[i - 1].pc # "none"
    /\ s < lcfg.n
    /\ lh' = [lh EXCEPT ![i] = [LockIdle EXCEPT !.pc = "start", !.op = op,
                                                !.key = key, !.srv = s]]
    /\ UNCHANGED <<base, px, lcfg, mu>>

\* Put/Append on a non-primary: _forward, the request runs at the primary
LForward(i) ==
    /\ lh[i].pc = "start" /\ lh[i].op \in {"Put", "Append"}
    /\ ~KeyIdRaises(lh[i].key)
    /\ lh[i].srv # PrimaryKeyIn(lcfg.n, lh[i].key)
    /\ lh' = [lh EXCEPT ![i].srv = PrimaryKeyIn(lcfg.n, lh[i].key), ![i].fwd = TRUE]
    /\ UNCHANGED <<base, px, lcfg, mu>>

\* Get on a server that is not responsible: raise TimeoutError; any request
\* for a key on which _key_id raises: ValueError before the lock is taken
LRefuse(i) ==
    /\ lh[i].pc = "start"
    /\ \/ KeyIdRaises(lh[i].key)
       \/ lh[i].op = "Get" /\ ~ResponsibleIn(lcfg.n, lcfg.r, lh[i].srv, lh[i].key)
    /\ lh' = [lh EXCEPT ![i].pc = "done"]
    /\ UNCHANGED <<base, px, lcfg, mu>>

\* Get on a responsible server, Put/Append on the primary: `with self.mu:`
LLock(i) ==
    /\ lh[i].pc = "start"
    /\ IF lh[i].op = "Get"
       THEN ResponsibleIn(lcfg.n, lcfg.r, lh[i].srv, lh[i].key)
       ELSE ~KeyIdRaises(lh[i].key) /\ lh[i].srv = PrimaryKeyIn(lcfg.n, lh[i].key)
    /\ mu[lh[i].srv] = 0
    /\ mu' = Locked(mu, lh[i].srv, i)
    /\ lh' = [lh EXCEPT ![i].pc = "crit"]
    /\ UNCHANGED <<base, px, lcfg>>

\* The end of the lock block of Get, Put or Append; dup: the duplicate check
\* returned from inside the block
LUnlock(i, dup) ==
    /\ lh[i].pc = "crit"
    /\ lh[i].op = "Get" => ~dup
    /\ mu' = Unlocked(mu, lh[i].srv)
    /\ lh' = [lh EXCEPT
                ![i].pc = IF lh[i].op = "Get" \/ dup \/ lcfg.r <= 1
                          THEN "done" ELSE "rep",
                ![i].k = 1]
    /\ UNCHANGED <<base, px, lcfg>>

\* _replicate: iteration lh[i].k, the call of follower._app_rep up to
\* `with self.mu:` of the follower
LRepLock(i) ==
    /\ lh[i].pc = "rep"
    /\ LET f == ReplicaAtIn(lcfg.n, lh[i].key, lh[i].k) IN
       IF f = lh[i].srv
       THEN /\ lh' = [lh EXCEPT ![i].k = @ + 1,
                                ![i].pc = IF lh[i].k + 1 < lcfg.r THEN "rep" ELSE "done"]
            /\ mu' = mu
       ELSE /\ mu[f] = 0
            /\ mu' = Locked(mu, f, i)
            /\ lh' = [lh EXCEPT ![i].pc = "repcrit"]
    /\ UNCHANGED <<base, px, lcfg>>

\* _app_rep: the end of the follower's lock block, back in _replicate
LRepUnlock(i) ==
    /\ lh[i].pc = "repcrit"
    /\ mu' = Unlocked(mu, ReplicaAtIn(lcfg.n, lh[i].key, lh[i].k))
    /\ lh' = [lh EXCEPT ![i].k = @ + 1,
                        ![i].pc = IF lh[i].k + 1 < lcfg.r THEN "rep" ELSE "done"]
    /\ UNCHANGED <<base, px, lcfg>>

\* The steps handler thread i can take
LThreadStep(i) ==
    \/ LForward(i) \/ LRefuse(i) \/ LLock(i)
    \/ \E dup \in BOOLEAN : LUnlock(i, dup)
    \/ LRepLock(i) \/ LRepUnlock(i)

LockNext ==
    \/ \E i \in LockThreads, op \in Ops, key \in Keys, s \in Servers : LArrive(i, op, key, s)
    \/ \E i \in LockThreads : LForward(i)
    \/ \E i \in LockThreads : LRefuse(i)
    \/ \E i \in LockThreads : LLock(i)
    \/ \E i \in LockThreads, dup \in BOOLEAN : LUnlock(i, dup)
    \/ \E i \in LockThreads : LRepLock(i)
    \/ \E i \in LockThreads : LRepUnlock(i)

LockSpec == LockInit /\ [][LockNext]_vars

\* ------------------------------------------------------------------ claims
Writes == {"Put", "Append"}

\* The keys that have a shard
ShardKeys == {key \in Keys : ~KeyIdRaises(key)}

\* No Put/Append handler for key is running at key's primary
Quiescent(key) ==
    ~\E h \in handlers : h.op \in Writes /\ h.key = key /\ h.srv = PrimaryKey(key)

\* Every client has issued at most one put/append: all writes in the run
\* come from different clients
OneWritePerClient == \A c \in Clients : clerkSeq[c] <= 1

\* C1: replica convergence. With writes issued by different clients only,
\* whenever no Put/Append handler for a key is running at the key's primary,
\* every backup of the shard stores the primary's value for the key.
ReplicaConvergence ==
    OneWritePerClient =>
        \A key \in Keys :
            Quiescent(key) =>
                \A b \in Backups(key) : kv[b][key] = kv[PrimaryKey(key)][key]

\* C2: idempotency. All deliveries of one request (c, n) to the primary get
\* the same reply, and the primary applies the request at most once.
Idempotency ==
    /\ \A x, y \in replies : (x.c = y.c /\ x.n = y.n) => x.reply = y.reply
    /\ \A key \in Keys, c \in Clients, n \in 1 .. MaxCalls : TimesApplied(key, c, n) <= 1

\* C3: exactly-once effect. Every put/append call that returned to the
\* Clerk's caller without raising was applied exactly once by the primary.
ExactlyOnce == \A w \in acked : TimesApplied(w.key, w.c, w.n) = 1

\* C4: monotonic sequence rejection. A step of a Put/Append handler on
\* server s, or a backup apply on server s, that carries client c and a
\* sequence number <= the one s has recorded for c changes neither kv nor
\* last of s.
MonotonicRejection ==
    [][\A h \in handlers :
         /\ ( /\ h.op \in Writes /\ h.pc = "start" /\ h \notin handlers'
              /\ last[h.srv][h.cid].has /\ h.seq <= last[h.srv][h.cid].seq )
            => (kv'[h.srv] = kv[h.srv] /\ last'[h.srv] = last[h.srv])
         /\ ( /\ h.pc = "rep" /\ h \notin handlers'
              /\ last[ReplicaAt(h.key, h.k)][h.cid].has
              /\ h.seq <= last[ReplicaAt(h.key, h.k)][h.cid].seq )
            => ( /\ kv'[ReplicaAt(h.key, h.k)] = kv[ReplicaAt(h.key, h.k)]
                 /\ last'[ReplicaAt(h.key, h.k)] = last[ReplicaAt(h.key, h.k)] )
      ]_vars

\* C4 witness: the primary has answered a request that is older than the one
\* it recorded for the client, without applying it, and still holds the
\* newer value.
RejectedStale ==
    \E h \in handlers :
        /\ h.op \in Writes /\ h.pc = "ret" /\ h.out = "ok" /\ IsPrimary(h.srv, h.key)
        /\ Pos(h.key, h.cid, h.seq) = 0
        /\ last[h.srv][h.cid].seq > h.seq
        /\ Len(kv[h.srv][h.key]) > 0
        /\ kv[h.srv][h.key][Len(kv[h.srv][h.key])] = Tok(h.cid, last[h.srv][h.cid].seq)

\* C5: replicate-then-acknowledge. Whenever a primary's Put/Append handler
\* is about to return a successful reply for a request (c, n) that the
\* primary has applied, every backup of the shard has written (c, n). Stated
\* for the runs in which no client has issued a second put/append, so that
\* no other request of c can stand in a backup's way.
ReplicateThenAck ==
    \A h \in handlers :
        ( /\ h.op \in Writes /\ h.pc = "ret" /\ h.out = "ok" /\ IsPrimary(h.srv, h.key)
          /\ Pos(h.key, h.cid, h.seq) > 0
          /\ OneWritePerClient )
        => \A b \in Backups(h.key) : <<h.cid, h.seq>> \in bapplied[b]

\* C6: read after acknowledged write. A Clerk get that returned a value was
\* served a value at least as new as every put/append on the key that had
\* returned to its caller before the get started.
ReadAfterAck ==
    \A t \in Threads :
        (th[t].pc = "idle" /\ th[t].op = "Get" /\ th[t].out = "ok")
        => \A w \in th[t].pre :
               /\ Pos(w.key, w.c, w.n) > 0
               /\ th[t].got >= Pos(w.key, w.c, w.n)

\* Thread t's last call has ended; it found the replica it tried first out
\* of cfg.running_servers, no call made for it was failed by the transport
\* while the callee was reached, and another server of the replica set is
\* running.
FallbackCase(t) ==
    /\ th[t].pc = "idle" /\ th[t].out # "none"
    /\ th[t].firstDown /\ ~th[t].dropped
    /\ \E a \in 1 .. (NReplicas - 1) :
           ClerkReplica(PrimaryKey(th[t].key), th[t].offset, a) \in running

\* C7 as claimed: routing fallback for get, put and append alike. A call
\* whose first-tried replica is unreachable while another replica of the set
\* is reachable does not end in the timeout failure.
RoutingFallback ==
    \A t \in Threads : FallbackCase(t) => th[t].out = "ok"

\* C7 amended: routing fallback holds for get, and for put/append when the
\* shard's primary is running.
RoutingFallbackAmended ==
    \A t \in Threads :
        (FallbackCase(t) /\ (th[t].op = "Get" \/ PrimaryKey(th[t].key) \in running))
        => th[t].out = "ok"

\* C7 witness: a put/append found its first-tried replica (a backup the Clerk
\* remembered) down and succeeded at the primary.
FallbackWrite ==
    \E t \in Threads :
        /\ FallbackCase(t) /\ th[t].op \in Writes /\ th[t].out = "ok"
        /\ th[t].offset # 0 /\ th[t].attempt > 0

\* The texts of the first m requests the primary applied to key, concatenated
RECURSIVE ConcatLog(_, _)
ConcatLog(key, m) ==
    IF m <= 0 THEN EmptyStr
    ELSE ConcatLog(key, m - 1) \o TextOf(log[key][m][1], log[key][m][2])

\* C8: atomic Append. When only Append requests reached a key's primary,
\* each of them once (no call was failed by the transport and retried), every
\* request was concatenated exactly once, its reply is the value just before
\* its text, and once all handlers have returned the primary's value is all
\* the texts in lock order.
AtomicAppend ==
    \A key \in ShardKeys :
        (drops = 0 /\ \A x \in replies : x.key = key => x.op = "Append")
        => /\ \A x \in replies :
                  x.key = key =>
                      /\ TimesApplied(key, x.c, x.n) = 1
                      /\ x.reply = ConcatLog(key, Pos(key, x.c, x.n) - 1)
           /\ Quiescent(key) =>
                  kv[PrimaryKey(key)][key] = ConcatLog(key, Len(log[key]))

\* The record handler h has become in the next state
After(h) ==
    CHOOSE g \in handlers' : g.t = h.t /\ g.n = h.n /\ g.a = h.a /\ g.f = h.f

\* C9: a Get delivered to a server outside the key's replica set ends in
\* the timeout error and leaves kv, last and the operation counter alone; a
\* Get on a server of the replica set returns the stored value ("" when the
\* key is absent) and changes neither kv nor last.
NotResponsibleGet ==
    [][\A h \in handlers :
         (h.op = "Get" /\ h.pc = "start" /\ h \notin handlers')
         => /\ kv' = kv /\ last' = last
            /\ After(h).pc = "ret"
            /\ IF h.srv \notin ReplicaSet(h.key)
               THEN After(h).out = "timeout" /\ opCount' = opCount
               ELSE After(h).out = "ok" /\ After(h).reply = kv[h.srv][h.key]
      ]_vars

InCall(t) == th[t].pc # "idle"

\* C10: every Clerk call ends (from some point on no thread is inside a
\* call), either with a reply from a server of the key's replica set or with
\* the timeout failure after at least one failed pass; a call that found
\* every replica of the shard down ends in the timeout failure.
CallsTerminate ==
    /\ <>[](\A t \in Threads : ~InCall(t))
    /\ [](\A t \in Threads :
            (~InCall(t) /\ th[t].n > 0) =>
                /\ \/ th[t].out = "ok" /\ th[t].from \in ReplicaSet(th[t].key)
                   \/ th[t].out = "timeout" /\ th[t].pass >= 1
                /\ th[t].allDown => th[t].out = "timeout")

\* C11: fresh sequence numbers. Every put/append takes, in one step under the
\* Clerk's lock, the counter plus one and leaves the counter at that number,
\* so the numbers grow strictly in lock order; a get, and a call that raises
\* ValueError before it reaches the lock, leave the counter alone; a call keeps its key, text and sequence number over all its
\* attempts; every request a server handles for the call carries the call's
\* (client_id, seq); no two calls of one Clerk share a sequence number.
FreshSeq ==
    [][/\ \A c \in Clients : clerkSeq'[c] >= clerkSeq[c]
       /\ \A t \in Threads :
            /\ (th[t].pc = "idle" /\ th'[t].pc # "idle") =>
                   IF th'[t].op = "Get"
                   THEN clerkSeq' = clerkSeq
                   ELSE /\ th'[t].seq = clerkSeq[ClerkOf(t)] + 1
                        /\ clerkSeq' = [clerkSeq EXCEPT ![ClerkOf(t)] = th'[t].seq]
            /\ (th'[t].n # th[t].n /\ th'[t].pc = "idle") =>
                   /\ th'[t].out = "valueerror" /\ th'[t].seq = 0
                   /\ clerkSeq' = clerkSeq
            /\ (th[t].pc # "idle") =>
                   /\ th'[t].seq = th[t].seq /\ th'[t].key = th[t].key
                   /\ th'[t].val = th[t].val /\ th'[t].op = th[t].op
                   /\ clerkSeq'[ClerkOf(t)] >= th[t].seq
       /\ \A t1, t2 \in Threads :
            ( /\ t1 # t2 /\ ClerkOf(t1) = ClerkOf(t2)
              /\ th'[t1].op \in Writes /\ th'[t2].op \in Writes
              /\ th'[t1].out # "valueerror" /\ th'[t2].out # "valueerror" )
            => th'[t1].seq # th'[t2].seq
       /\ \A h \in handlers' :
            (h.op \in Writes /\ h.t \in Threads) =>
                /\ h.cid = ClerkOf(h.t)
                /\ h.seq >= 1 /\ h.seq <= clerkSeq'[h.cid]
                /\ h.n = th'[h.t].n =>
                       /\ h.seq = th'[h.t].seq /\ h.key = th'[h.t].key
                       /\ h.val = th'[h.t].val /\ h.op = th'[h.t].op
                /\ \A g \in handlers' :
                       (g.op \in Writes /\ g.cid = h.cid /\ g.seq = h.seq)
                       => (g.t = h.t /\ g.n = h.n /\ g.key = h.key /\ g.val = h.val)
      ]_vars

\* C11 witness: two threads are inside put/append calls on one Clerk with
\* different sequence numbers, and a retry of the first call (a later
\* attempt) is being handled with the call's sequence number.
ConcurrentFreshSeq ==
    \E t1, t2 \in Threads :
        /\ t1 # t2 /\ ClerkOf(t1) = ClerkOf(t2)
        /\ InCall(t1) /\ InCall(t2)
        /\ th[t1].op \in Writes /\ th[t2].op \in Writes
        /\ th[t1].seq < th[t2].seq
        /\ \E h \in handlers :
               h.t = t1 /\ h.n = th[t1].n /\ h.a >= 1 /\ h.seq = th[t1].seq

\* C13: forwarding endpoint cleanup. A forwarding handler owns an endpoint
\* only while its connection.call is pending or while it sleeps after the
\* call failed, and then exactly the one of the current attempt; when it
\* tests the deadline, starts the next attempt, returns or raises it owns
\* none.
EndpointCleanup ==
    \A h \in handlers :
        /\ Cardinality(h.ends) <= 1
        /\ h.pc \in {"fwdwait", "fwdsleep"} => h.ends = {h.k + 1}
        /\ h.pc \notin {"fwdwait", "fwdsleep"} => h.ends = {}

\* C13 witness: a forward whose first attempt failed is in its second attempt
\* and owns exactly the endpoint of that attempt.
SecondForwardAttempt ==
    \E h \in handlers :
        /\ h.op \in Writes /\ ~IsPrimary(h.srv, h.key)
        /\ h.pc = "fwdwait" /\ h.k >= 1 /\ h.ends = {h.k + 1}

\* The handlers that appear in the step on behalf of forwarder h
Forwarded(h) ==
    {g \in handlers' \ handlers : g.t = h.t /\ g.n = h.n /\ g.a = h.a /\ g.f > 0}

\* C14: Put/Append on a non-primary. Every step of a Put/Append handler on a
\* server that is not the key's primary leaves that server's kv and last
\* unchanged; the request it sends goes to the primary with the same
\* operation, key, value, client_id and seq; when it returns it either hands
\* on the reply of the primary's handler that just answered, or raises the
\* timeout failure.
NonPrimaryForwards ==
    [][\A h \in handlers :
         (h.op \in Writes /\ ~IsPrimary(h.srv, h.key) /\ h.pc # "ret" /\ h \notin handlers')
         => /\ kv'[h.srv] = kv[h.srv] /\ last'[h.srv] = last[h.srv]
            /\ opCount' = opCount /\ log' = log
            /\ \A g \in Forwarded(h) :
                   /\ g.srv = PrimaryKey(h.key) /\ g.op = h.op /\ g.key = h.key
                   /\ g.val = h.val /\ g.cid = h.cid /\ g.seq = h.seq
                   /\ g.pc = "start"
            /\ After(h).pc = "fwdwait" => Forwarded(h) # {}
            /\ After(h).pc = "ret" =>
                   \/ After(h).out = "timeout" /\ h.pc = "fwd"
                   \/ /\ After(h).out = "ok" /\ h.pc = "fwdwait"
                      /\ \E g \in handlers \ handlers' :
                             /\ g.t = h.t /\ g.n = h.n /\ g.a = h.a /\ g.f = h.k + 1
                             /\ g.srv = PrimaryKey(h.key)
                             /\ g.pc = "ret" /\ g.out = "ok"
                             /\ After(h).reply = g.reply
                             /\ Reply(g, g.reply) \in replies
      ]_vars

\* C14 witness: an Append handler on a backup has received the primary's
\* reply and is about to return it, the backup's own dedup table has no
\* entry written by a handler of its own.
ForwardedAppendReturns ==
    \E h \in handlers :
        /\ h.op = "Append" /\ ~IsPrimary(h.srv, h.key)
        /\ h.pc = "ret" /\ h.out = "ok" /\ h.reply # NoneVal
        /\ Reply(h, h.reply) \in replies
        /\ Pos(h.key, h.cid, h.seq) > 0

\* The Get handlers that are served by a responsible server in the step
GetsServed ==
    {h \in handlers : /\ h.op = "Get" /\ h.pc = "start" /\ h \notin handlers'
                      /\ Responsible(h.srv, h.key)}

\* The Put/Append handlers whose request is applied for the first time at
\* the key's primary in the step
FirstApplies ==
    {h \in handlers : /\ h.op \in Writes /\ h.pc = "start" /\ h \notin handlers'
                      /\ IsPrimary(h.srv, h.key)
                      /\ ~(last[h.srv][h.cid].has /\ h.seq <= last[h.srv][h.cid].seq)}

\* C16: operation counting hook. In every step the number of op()
\* invocations grows by the number of Gets served by a responsible server
\* plus the number of Put/Append requests applied for the first time at a
\* primary in that step, so by nothing in a suppressed duplicate, a forward,
\* a backup apply or a not-responsible Get.
OpCounting ==
    [][opCount' = opCount + Cardinality(GetsServed) + Cardinality(FirstApplies)]_vars

\* C16 witness: one Append was forwarded by a backup, applied by the primary
\* and applied by the backup, and the hook has been invoked exactly once.
OneOpCounted ==
    /\ opCount = 1
    /\ \E h \in handlers :
           /\ h.op \in Writes /\ ~IsPrimary(h.srv, h.key) /\ h.pc = "ret" /\ h.out = "ok"
           /\ <<h.cid, h.seq>> \in bapplied[h.srv]

\* C17: backups store precomputed results. The primary's handler carries to
\* _replicate the value it stored and the reply it recorded (for Append the
\* old value and the old value followed by the text); a backup apply that is
\* not a duplicate writes exactly that value for the key and records exactly
\* (seq, that reply) for the client.
BackupStoresResult ==
    [][\A h \in handlers :
         /\ ( /\ h.op \in Writes /\ h.pc = "start" /\ h \notin handlers'
              /\ IsPrimary(h.srv, h.key)
              /\ ~(last[h.srv][h.cid].has /\ h.seq <= last[h.srv][h.cid].seq) )
            => /\ After(h).newv = kv'[h.srv][h.key]
               /\ last'[h.srv][h.cid] =
                      [has |-> TRUE, seq |-> h.seq, val |-> After(h).reply]
               /\ h.op = "Append" =>
                      /\ After(h).reply = kv[h.srv][h.key]
                      /\ After(h).newv = kv[h.srv][h.key] \o h.val
               /\ h.op = "Put" =>
                      /\ After(h).reply = NoneVal
                      /\ After(h).newv = h.val
         /\ (h.pc = "rep" /\ h \notin handlers')
            => /\ After(h).newv = h.newv /\ After(h).reply = h.reply
               /\ ( /\ ReplicaAt(h.key, h.k) # h.srv
                    /\ ~( /\ last[ReplicaAt(h.key, h.k)][h.cid].has
                          /\ h.seq <= last[ReplicaAt(h.key, h.k)][h.cid].seq ) )
                  => /\ kv'[ReplicaAt(h.key, h.k)][h.key] = h.newv
                     /\ last'[ReplicaAt(h.key, h.k)][h.cid] =
                            [has |-> TRUE, seq |-> h.seq, val |-> h.reply]
      ]_vars

\* C17 witness: a backup has applied the second Append to a key: it holds the
\* primary's two-text value, and its dedup entry holds the one-text reply.
BackupHoldsConcatenation ==
    \E key \in Keys, c \in Clients :
        \E b \in Backups(key) :
            /\ Len(kv[b][key]) = 2
            /\ kv[b][key] = kv[PrimaryKey(key)][key]
            /\ last[b][c].has /\ Len(last[b][c].val) = 1
            /\ last[b][c].val \o TextOf(c, last[b][c].seq) = kv[b][key]
            /\ <<c, last[b][c].seq>> \in bapplied[b]

\* C18: a backup never suppresses a mutation its primary applied. When the
\* handler that applied (c, n) at the primary is through with _replicate,
\* every backup of the shard has written (c, n).
BackupNeverSuppresses ==
    \A h \in handlers :
        ( /\ h.op \in Writes /\ IsPrimary(h.srv, h.key)
          /\ h.pc = "ret" /\ h.k >= 1 )
        => \A b \in Backups(h.key) : <<h.cid, h.seq>> \in bapplied[b]

\* C19: the dedup high-water mark is monotonic and bounded. On every server
\* and for every client the recorded sequence number never decreases, an
\* entry never disappears, and the recorded number is at most the number the
\* client's Clerk has issued last.
DedupMonotonic ==
    [][\A s \in Servers, c \in Clients :
         /\ last'[s][c].seq >= last[s][c].seq
         /\ last[s][c].has => last'[s][c].has
         /\ last'[s][c].seq <= clerkSeq'[c]
         /\ last'[s][c].has => last'[s][c].seq >= 1
      ]_vars

\* C19 witness: a backup apply of an older request arrived at a server that
\* had recorded a newer sequence number of the client, and the newer number
\* is still recorded.
OlderApplyArrived ==
    \E h \in handlers :
        /\ h.op \in Writes /\ IsPrimary(h.srv, h.key) /\ h.pc = "ret" /\ h.k >= 1
        /\ \E b \in Backups(h.key) :
               /\ <<h.cid, h.seq>> \notin bapplied[b]
               /\ last[b][h.cid].has /\ last[b][h.cid].seq > h.seq
               /\ last[b][h.cid].seq = clerkSeq[h.cid]

\* C20: forwarding is a single hop. Every request a server received from a
\* forwarding server is at the key's primary, which handles it itself: it
\* never forwards it, so it makes no endpoint.
SingleHop ==
    \A h \in handlers :
        h.f > 0 =>
            /\ h.srv = PrimaryKey(h.key) /\ IsPrimary(h.srv, h.key)
            /\ h.pc \notin {"fwd", "fwdwait", "fwdsleep"}
            /\ h.ends = {}

\* C20 witness: a forwarded request has been applied and replicated by the
\* primary, whose handler is about to answer the forwarding server.
ForwardedApplied ==
    \E h \in handlers :
        /\ h.f > 0 /\ h.op \in Writes /\ h.pc = "ret" /\ h.k >= 1
        /\ Pos(h.key, h.cid, h.seq) > 0
        /\ \E p \in handlers : p.pc = "fwdwait" /\ p.t = h.t /\ p.n = h.n /\ p.a = h.a

\* The servers of 0 .. N-1 that are responsible for key
ResponsibleSet(N, R, key) == {s \in 0 .. (N - 1) : ResponsibleIn(N, R, s, key)}

\* The servers contacted so far in the pass
Contacted == {px.contacted[i] : i \in 1 .. Len(px.contacted)}

\* C12: lock discipline and deadlock freedom. A handler thread holds at most
\* one KVServer.mu: its server's inside the lock block of Get, Put or Append,
\* the follower's inside _app_rep, and none while it forwards, while it is
\* between the lock block and _app_rep, or while it waits for a lock; and as
\* long as some handler has not finished, some handler can take a step.
LockDiscipline ==
    /\ \A i \in LockThreads :
         /\ Cardinality(Holds(i)) <= 1
         /\ lh[i].pc \in {"none", "start", "rep", "done"} => Holds(i) = {}
         /\ lh[i].pc = "crit" => Holds(i) = {lh[i].srv}
         /\ lh[i].pc = "repcrit" =>
                /\ Holds(i) = {ReplicaAtIn(lcfg.n, lh[i].key, lh[i].k)}
                /\ ReplicaAtIn(lcfg.n, lh[i].key, lh[i].k) # lh[i].srv
    /\ \A s \in Servers : mu[s] # 0 => lh[mu[s]].pc \in {"crit", "repcrit"}
    /\ (\E i \in LockThreads : lh[i].pc \notin {"none", "done"})
       => \E i \in LockThreads : ENABLED LThreadStep(i)

\* C12 witness: two servers are each primary of one shard and backup of the
\* other's; the handler of one is inside _app_rep on the other while the
\* other's handler is about to call _app_rep on the first.
MutualReplication ==
    \E i, j \in LockThreads :
        /\ i # j
        /\ lh[i].pc = "repcrit" /\ lh[j].pc = "rep"
        /\ lh[i].srv # lh[j].srv
        /\ ReplicaAtIn(lcfg.n, lh[i].key, lh[i].k) = lh[j].srv
        /\ ReplicaAtIn(lcfg.n, lh[j].key, lh[j].k) = lh[i].srv

\* For a key that has a shard
AgreeOnRoutedKey ==
    /\ Contacted \subseteq ResponsibleSet(px.n, px.r, px.key)
    /\ Cardinality(Contacted) = Len(px.contacted)
    /\ Len(px.contacted) = px.attempt
    /\ px.attempt = px.r => Contacted = ResponsibleSet(px.n, px.r, px.key)
    /\ px.sent \subseteq ResponsibleSet(px.n, px.r, px.key)
    /\ px.k = px.r =>
           /\ {PrimaryKeyIn(px.n, px.key)} \cup px.sent = ResponsibleSet(px.n, px.r, px.key)
           /\ Cardinality(px.sent) = px.r - 1
    /\ Cardinality(ResponsibleSet(px.n, px.r, px.key)) = px.r

\* C15: client and servers agree on the replica set. In one pass the Clerk
\* contacts only responsible servers, none twice, and after the pass exactly
\* the responsible servers, whatever the remembered offset; the primary and
\* the servers _replicate has sent to are, after its loop, exactly the
\* responsible servers too. For a key on which _key_id raises ValueError the
\* Clerk contacts no server, no server is responsible and _replicate is
\* never reached.
AgreeOnReplicaSet ==
    /\ KeyIdRaises(px.key) =>
           /\ Contacted = {} /\ px.sent = {}
           /\ ResponsibleSet(px.n, px.r, px.key) = {}
    /\ ~KeyIdRaises(px.key) => AgreeOnRoutedKey

\* C15 witness: with fewer replicas than servers and a remembered offset
\* other than 0, a pass and a _replicate loop have run to their end; the pass
\* started at a backup.
PassFromBackupDone ==
    /\ px.r >= 2 /\ px.n > px.r /\ px.offset > 0
    /\ px.attempt = px.r /\ px.k = px.r
    /\ px.contacted[1] # PrimaryKeyIn(px.n, px.key)
    /\ PrimaryKeyIn(px.n, px.key) + px.r > px.n

====
